---- MODULE Spec2Model ----
(***************************************************************************)
(* Model of src/main.py: the paginated, rate-limited fetch of orders       *)
(* (fetch_orders), the retrying sheet operations (retry_call and the       *)
(* *_safe wrappers), the sheet writer (write_orders_to_sheet) and the      *)
(* per-cabinet loop (main).                                                *)
(*                                                                         *)
(* One step of the model is one upstream request together with everything  *)
(* the code does with its outcome (classification, sleep, retry / return / *)
(* page advance), or one invocation of a Google Sheets operation inside    *)
(* retry_call together with everything that follows it up to the next      *)
(* invocation.                                                             *)
(***************************************************************************)
EXTENDS Integers, Sequences, FiniteSets, TLC

VARIABLES
    mainpc,          \* where main() is: "open", "next", "fetch", "write", "done", "aborted"
    ci,              \* index into data of the entry being processed (1-based)
    sheet,           \* target spreadsheet: worksheet title -> Absent or its rows
    orders,          \* main(): orders, the value returned by fetch_orders
    cabinet_name,    \* write_orders_to_sheet(): parameter cabinet_name
    next_date_from,  \* fetch_orders(): cursor
    all_rows,        \* fetch_orders(): accumulator
    page,            \* fetch_orders(): page number
    attempt,         \* fetch_orders(): attempt number of the current page
    chunk,           \* fetch_orders(): last parsed valid page
    resp,            \* outcome of the last requests.get (response or exception)
    outcome,         \* branch of the loop body the last response took
    slept,           \* seconds slept by fetch_orders since the last request
    reqCursor,       \* dateFrom parameter carried by the last request
    nreq,            \* requests issued by the current fetch_orders call
    served,          \* record lists of the non-empty valid pages received, in arrival order
    fails,           \* failed attempts: of the current page per retry policy, and of the call
    stop,            \* why the current fetch_orders call returned ("none" while running)
    wpc,             \* write_orders_to_sheet(): "idle", "get", "add", "clear", "update"
    rc,              \* retry_call(): attempt number of the next invocation
    rlast,           \* retry_call(): outcome of the last invocation
    rows,            \* write_orders_to_sheet(): rows prepared for the update
    nclear,          \* ws.clear invocations made by the current sink call
    nupdate,         \* ws.update invocations made by the current sink call
    fetched,         \* per data entry: number of fetch_orders calls
    written          \* per data entry: number of write_orders_to_sheet calls

vars == <<mainpc, ci, sheet, orders, cabinet_name, next_date_from, all_rows, page,
          attempt, chunk, resp, outcome, slept, reqCursor, nreq, served, fails, stop, wpc,
          rc,
          rlast, rows, nclear, nupdate, fetched, written>>

fetchVars == <<next_date_from, all_rows, page, attempt, chunk, resp, outcome,
               slept, reqCursor, nreq, served, fails, stop>>

sinkVars == <<wpc, rc, rlast, rows, nclear, nupdate>>

(***************************************************************************)
(* Bounds of the model.                                                    *)
(***************************************************************************)
NumCabinets == 2     \* entries of the credential list
MaxPages == 2        \* non-empty pages the upstream serves to one fetch

(***************************************************************************)
(* Program constants.                                                      *)
(***************************************************************************)
max_decode_retries == 3
base_sleep == 60
max_http_retries == 3
retries == 5
RETRYABLE_HTTP == {429, 500, 502, 503, 504}
TransientStatus == {429, 500, 502, 503, 504}

Min(a, b) == IF a < b THEN a ELSE b

(***************************************************************************)
(* JSON values.  An object is an ordered list of <<key, value>> pairs (a   *)
(* Python dict keeps insertion order); an array is a list of items.        *)
(***************************************************************************)
Obj(kv) == [t |-> "obj", kv |-> kv, items |-> <<>>]
Arr(items) == [t |-> "arr", kv |-> <<>>, items |-> items]
Num == [t |-> "num", kv |-> <<>>, items |-> <<>>]

rA == Obj(<< <<"id", "a">>, <<"lastChangeDate", "d1">> >>)
rB == Obj(<< <<"lastChangeDate", "d2">>, <<"id", "b">>, <<"x", "1">> >>)
rC == Obj(<< <<"id", "c">> >>)

\* Non-empty pages the upstream may serve.
Pages == { <<rA, rB>>, <<rB, rA>>, <<rA, rC>>, <<Num>> }

(***************************************************************************)
(* Response bodies are texts: lists of tokens, a token being whitespace,   *)
(* non-JSON text, or the text of one JSON value.                           *)
(***************************************************************************)
Ws == [k |-> "ws", v |-> Num]
Html == [k |-> "text", v |-> Num]
Json(v) == [k |-> "json", v |-> v]

RECURSIVE LStrip(_)
LStrip(s) == IF s # <<>> /\ Head(s).k = "ws" THEN LStrip(Tail(s)) ELSE s

RECURSIVE RStrip(_)
RStrip(s) ==
    IF s # <<>> /\ s[Len(s)].k = "ws" THEN RStrip(SubSeq(s, 1, Len(s) - 1)) ELSE s

\* str.strip()
Strip(s) == RStrip(LStrip(s))

\* resp.json(): the text parses iff, whitespace aside, it is one JSON value.
JsonOk(body) == Len(Strip(body)) = 1 /\ Strip(body)[1].k = "json"
JsonOf(body) == Strip(body)[1].v

\* Content-Type values are lists of text fragments; "" when the header is absent.
Lower(frag) == IF frag = "Application/JSON" THEN "application/json" ELSE frag
LowerAll(ct) == [i \in DOMAIN ct |-> Lower(ct[i])]
\* "application/json" in ctype
HasJsonType(ct) == \E i \in DOMAIN ct : ct[i] = "application/json"

CTypes == { <<"application/json">>, <<"Application/JSON", "; charset=utf-8">>,
            <<"text/html">>, <<>> }

Bodies == { <<>>, <<Ws>>, <<Html>>, <<Json(Obj(<<>>))>>, <<Json(Arr(<<>>)), Html>>,
            <<Json(Arr(<<>>))>>, <<Ws, Json(Arr(<<>>)), Ws>> }
          \cup { <<Json(Arr(p))>> : p \in Pages }

Response(st, ct, b) == [exc |-> FALSE, status |-> st, ctype |-> ct, body |-> b]
\* requests.get raised instead of returning a response
NetworkError == [exc |-> TRUE, status |-> 0, ctype |-> <<>>, body |-> <<>>]
NoResponse == [exc |-> FALSE, status |-> 0, ctype |-> <<>>, body |-> <<>>]

\* What a non-200 response may carry: an HTML page, or JSON that would be a valid page.
ErrorContents == { << <<"text/html">>, <<Html>> >>,
                   << <<"application/json">>, <<Json(Arr(<<rA, rB>>))>> >> }

\* Every response the upstream may give.
Responses ==
    { Response(200, ct, b) : ct \in CTypes, b \in Bodies }
    \cup { Response(st, c[1], c[2]) :
             st \in TransientStatus \cup {401, 403, 404}, c \in ErrorContents }

\* One response of each kind, for the runs over several cabinets.
FewResponses ==
    { Response(200, <<"application/json">>, <<Json(Arr(p))>>) :
        p \in { <<>>, <<rA, rB>>, <<rA, rC>>, <<Num>> } }
    \cup { Response(200, <<"text/html">>, <<Html>>),
           Response(503, <<"text/html">>, <<Html>>),
           Response(401, <<"application/json">>, <<Html>>),
           Response(404, <<"text/html">>, <<Html>>) }

\* What the upstream sent: a JSON-typed body that is, blanks aside, one non-empty array.
NonBlank(body) == { i \in DOMAIN body : body[i].k # "ws" }
IsPage(ct, body) ==
    /\ \E i \in DOMAIN ct : ct[i] \in {"application/json", "Application/JSON"}
    /\ Cardinality(NonBlank(body)) = 1
    /\ \A i \in NonBlank(body) :
          body[i].k = "json" /\ body[i].v.t = "arr" /\ body[i].v.items # <<>>
PageOf(body) == body[CHOOSE i \in NonBlank(body) : TRUE].v.items

(***************************************************************************)
(* fetch_orders: classification of one response, in the order of the code. *)
(***************************************************************************)
\* Variant: the 401 check comes after the content-type check.
ClassifyAuthLate(r) ==
    IF r.status \in TransientStatus THEN "transient"
    ELSE IF r.status \notin {200, 401} THEN "unexpected"
    ELSE IF ~HasJsonType(LowerAll(r.ctype)) \/ Strip(r.body) = <<>> THEN "not_json"
    ELSE IF r.status = 401 THEN "auth"
    ELSE IF ~JsonOk(r.body) THEN "decode_error"
    ELSE IF JsonOf(r.body).t # "arr" THEN "not_array"
    ELSE "valid"

Classify(r) ==
    IF r.status \in TransientStatus THEN "transient"
    ELSE IF r.status = 401 THEN "auth"
    ELSE IF r.status # 200 THEN "unexpected"
    ELSE IF ~HasJsonType(LowerAll(r.ctype)) \/ Strip(r.body) = <<>> THEN "not_json"
    ELSE IF ~JsonOk(r.body) THEN "decode_error"
    ELSE IF JsonOf(r.body).t # "arr" THEN "not_array"
    ELSE "valid"

\* chunk[-1]["lastChangeDate"] succeeds
HasKey(item, key) == item.t = "obj" /\ \E i \in DOMAIN item.kv : item.kv[i][1] = key
Lookup(item, key) ==
    item.kv[CHOOSE i \in DOMAIN item.kv : item.kv[i][1] = key][2]

\* Failed attempts: the HTTP/network ones and the malformed ones of the current page,
\* and all of them since the call began.
NoFails == [http |-> 0, decode |-> 0, total |-> 0]
Tally(tag) ==
    IF tag \in {"not_json", "decode_error", "not_array"}
    THEN [fails EXCEPT !.decode = @ + 1, !.total = @ + 1]
    ELSE [fails EXCEPT !.http = @ + 1, !.total = @ + 1]

\* date_from: now minus the lookback window, at midnight
date_from == "d0"

\* The credential list read at start-up.
data == [i \in 1..NumCabinets |-> [token |-> <<"token", i>>, cabinet |-> <<"cabinet", i>>]]
Titles == { data[i].cabinet : i \in DOMAIN data }

\* A worksheet of the target spreadsheet: missing, or present with its rows.
Absent == [exists |-> FALSE, rows |-> <<>>]
Table(rs) == [exists |-> TRUE, rows |-> rs]
OldRows == << <<"old">> >>
\* The target spreadsheet before the run: every other cabinet already has a worksheet.
InitialSheet == [t \in Titles |-> IF t[2] % 2 = 1 THEN Table(OldRows) ELSE Absent]

(***************************************************************************)
(* retry_call and the outcomes of one invocation of a Sheets operation.    *)
(***************************************************************************)
Ok == [kind |-> "ok", code |-> 0]
ApiError(c) == [kind |-> "api", code |-> c]
RequestException == [kind |-> "net", code |-> 0]
WorksheetNotFound == [kind |-> "notfound", code |-> 0]
NoOutcome == [kind |-> "none", code |-> 0]

\* Every failure of one invocation, and one failure of each kind.
Failures == { ApiError(c) : c \in RETRYABLE_HTTP \cup {403} } \cup { RequestException }
FewFailures == { ApiError(503), ApiError(403), RequestException }

\* Variant: 429 is missing from the retryable codes.
is_retryable_without_429(o) == o.code \in RETRYABLE_HTTP \ {429}

is_retryable_apierror(o) == o.code \in RETRYABLE_HTTP

\* What retry_call does after invocation number att ended with outcome o.
retry_call(o, att) ==
    IF o.kind = "ok" THEN "return"
    ELSE IF o.kind = "api"
         THEN IF is_retryable_apierror(o) /\ att < retries THEN "retry" ELSE "raise"
    ELSE IF o.kind = "net"
         THEN IF att < retries THEN "retry" ELSE "raise"
    ELSE "raise"

(***************************************************************************)
(* write_orders_to_sheet: the rows prepared from the orders.               *)
(***************************************************************************)
Keys(order) == [i \in DOMAIN order.kv |-> order.kv[i][1]]
\* order.get(h, "")
Get(order, h) == IF HasKey(order, h) THEN Lookup(order, h) ELSE ""
\* .keys() and .get() exist on dicts only
RowsOk(os) == \A i \in DOMAIN os : os[i].t = "obj"
\* Variant: the header is taken from the last record.
RowsHeaderFromLast(os) ==
    LET headers == Keys(os[Len(os)])
    IN <<headers>> \o [i \in DOMAIN os |-> [j \in DOMAIN headers |-> Get(os[i], headers[j])]]

Rows(os) ==
    LET headers == Keys(os[1])
    IN <<headers>> \o [i \in DOMAIN os |-> [j \in DOMAIN headers |-> Get(os[i], headers[j])]]

(***************************************************************************)
(* Initial state: module start-up done, main() about to open the target.   *)
(***************************************************************************)
Init ==
    /\ mainpc = "open"
    /\ ci = 1
    /\ sheet = InitialSheet
    /\ orders = <<>>
    /\ cabinet_name = <<>>
    /\ next_date_from = date_from
    /\ all_rows = <<>>
    /\ page = 1
    /\ attempt = 0
    /\ chunk = <<>>
    /\ resp = NoResponse
    /\ outcome = "none"
    /\ slept = 0
    /\ reqCursor = ""
    /\ nreq = 0
    /\ served = <<>>
    /\ fails = NoFails
    /\ stop = "none"
    /\ wpc = "idle"
    /\ rc = 1
    /\ rlast = NoOutcome
    /\ rows = <<>>
    /\ nclear = 0
    /\ nupdate = 0
    /\ fetched = [i \in DOMAIN data |-> 0]
    /\ written = [i \in DOMAIN data |-> 0]

(***************************************************************************)
(* main(): open the target, then one fetch and one sink call per entry.    *)
(***************************************************************************)
\* The locals of a fetch_orders call that has returned are gone.
FetchFrameGone ==
    /\ next_date_from' = date_from
    /\ all_rows' = <<>>
    /\ page' = 1
    /\ attempt' = 0
    /\ chunk' = <<>>
    /\ resp' = NoResponse
    /\ outcome' = "none"
    /\ slept' = 0
    /\ reqCursor' = ""
    /\ nreq' = 0
    /\ served' = <<>>
    /\ fails' = NoFails
    /\ stop' = "none"

\* The arguments and locals of a write_orders_to_sheet call that has returned are gone.
SinkFrameGone ==
    /\ orders' = <<>>
    /\ cabinet_name' = <<>>
    /\ wpc' = "idle"
    /\ rc' = 1
    /\ rlast' = NoOutcome
    /\ rows' = <<>>
    /\ nclear' = 0
    /\ nupdate' = 0

\* open_spreadsheet_by_key_safe(client, TARGET_SHEET_ID): one invocation.
OpenTarget(o) ==
    /\ mainpc = "open"
    /\ rlast' = o
    /\ CASE retry_call(o, rc) = "return" -> mainpc' = "next" /\ rc' = 1
         [] retry_call(o, rc) = "retry" -> mainpc' = "open" /\ rc' = rc + 1
         [] OTHER -> mainpc' = "aborted" /\ rc' = rc
    /\ UNCHANGED <<ci, sheet, orders, cabinet_name, wpc, rows, nclear, nupdate,
                   fetched, written>>
    /\ UNCHANGED fetchVars

\* for entry in data: ... orders = fetch_orders(token, days=14): entry of the call.
FetchBegin ==
    /\ mainpc = "next"
    /\ ci <= Len(data)
    /\ mainpc' = "fetch"
    /\ next_date_from' = date_from
    /\ all_rows' = <<>>
    /\ page' = 1
    /\ attempt' = 0
    /\ chunk' = <<>>
    /\ resp' = NoResponse
    /\ outcome' = "none"
    /\ slept' = 0
    /\ reqCursor' = ""
    /\ nreq' = 0
    /\ served' = <<>>
    /\ fails' = NoFails
    /\ stop' = "none"
    /\ fetched' = [fetched EXCEPT ![ci] = @ + 1]
    /\ SinkFrameGone
    /\ UNCHANGED <<ci, sheet, written>>

\* The loop over data is exhausted.
Finish ==
    /\ mainpc = "next"
    /\ ci > Len(data)
    /\ mainpc' = "done"
    /\ SinkFrameGone
    /\ UNCHANGED <<ci, sheet, fetched, written>>
    /\ UNCHANGED fetchVars

(***************************************************************************)
(* fetch_orders: one request and what the loop body does with its outcome. *)
(***************************************************************************)
\* Variant: the sink is always called with the first entry's cabinet name.
ReturnWrongCabinet(reason, result) ==
    /\ stop' = reason
    /\ orders' = result
    /\ mainpc' = "write"
    /\ cabinet_name' = data[1].cabinet
    /\ written' = [written EXCEPT ![ci] = @ + 1]
    /\ wpc' = "get"
    /\ rc' = 1
    /\ rlast' = NoOutcome
    /\ rows' = <<>>
    /\ nclear' = 0
    /\ nupdate' = 0

\* return all_rows; main() passes the result on to write_orders_to_sheet.
Return(reason, result) ==
    /\ stop' = reason
    /\ orders' = result
    /\ mainpc' = "write"
    /\ cabinet_name' = data[ci].cabinet
    /\ written' = [written EXCEPT ![ci] = @ + 1]
    /\ wpc' = "get"
    /\ rc' = 1
    /\ rlast' = NoOutcome
    /\ rows' = <<>>
    /\ nclear' = 0
    /\ nupdate' = 0

\* continue / next iteration of the outer loop
Continue ==
    /\ stop' = "none"
    /\ UNCHANGED <<mainpc, orders, cabinet_name, written>>
    /\ UNCHANGED sinkVars

\* The request itself: attempt += 1, requests.get(..., params={"dateFrom": next_date_from}).
Request(r) ==
    /\ mainpc = "fetch"
    /\ nreq' = nreq + 1
    /\ reqCursor' = next_date_from
    /\ resp' = r
    /\ served' = IF ~r.exc /\ r.status = 200 /\ IsPage(r.ctype, r.body)
                 THEN Append(served, PageOf(r.body))
                 ELSE served

\* Variant: a failed attempt starts the page over from the initial cursor.
FailedResetsCursor(tag, wait, cap, reason) ==
    /\ outcome' = tag
    /\ fails' = Tally(tag)
    /\ attempt' = attempt + 1
    /\ slept' = wait
    /\ next_date_from' = date_from
    /\ UNCHANGED <<all_rows, page, chunk>>
    /\ IF attempt + 1 >= cap THEN Return(reason, all_rows) ELSE Continue

\* Variant: the cap is compared with > instead of >=.
FailedOffByOne(tag, wait, cap, reason) ==
    /\ outcome' = tag
    /\ fails' = Tally(tag)
    /\ attempt' = attempt + 1
    /\ slept' = wait
    /\ UNCHANGED <<next_date_from, all_rows, page, chunk>>
    /\ IF attempt + 1 > cap THEN Return(reason, all_rows) ELSE Continue

\* Variant: giving up returns an empty list instead of the accumulator.
FailedDropsRows(tag, wait, cap, reason) ==
    /\ outcome' = tag
    /\ fails' = Tally(tag)
    /\ attempt' = attempt + 1
    /\ slept' = wait
    /\ UNCHANGED <<next_date_from, all_rows, page, chunk>>
    /\ IF attempt + 1 >= cap THEN Return(reason, <<>>) ELSE Continue

\* A failed attempt: sleep, then give up at the cap or retry the same page.
Failed(tag, wait, cap, reason) ==
    /\ outcome' = tag
    /\ fails' = Tally(tag)
    /\ attempt' = attempt + 1
    /\ slept' = wait
    /\ UNCHANGED <<next_date_from, all_rows, page, chunk>>
    /\ IF attempt + 1 >= cap THEN Return(reason, all_rows) ELSE Continue

FetchNetworkError ==
    /\ Request(NetworkError)
    /\ Failed("network", base_sleep, max_http_retries, "cap_network")
    /\ UNCHANGED <<ci, sheet, fetched>>

\* Variant: the wait after a transient status does not grow with the attempt.
FetchTransientFlat(r) ==
    /\ Request(r)
    /\ Classify(r) = "transient"
    /\ Failed("transient", base_sleep, max_http_retries, "cap_http")
    /\ UNCHANGED <<ci, sheet, fetched>>

FetchTransient(r) ==
    /\ Request(r)
    /\ Classify(r) = "transient"
    /\ Failed("transient", base_sleep * Min(attempt + 1, 4), max_http_retries, "cap_http")
    /\ UNCHANGED <<ci, sheet, fetched>>

\* Variant: a 401 is retried like an unexpected status.
FetchAuthRetries(r) ==
    /\ Request(r)
    /\ Classify(r) = "auth"
    /\ Failed("auth", base_sleep, max_http_retries, "cap_status")
    /\ UNCHANGED <<ci, sheet, fetched>>

\* Variant: a 401 waits out the base pause before returning.
FetchAuthSleeps(r) ==
    /\ Request(r)
    /\ Classify(r) = "auth"
    /\ outcome' = "auth"
    /\ fails' = fails
    /\ attempt' = attempt + 1
    /\ slept' = base_sleep
    /\ Return("auth", all_rows)
    /\ UNCHANGED <<next_date_from, all_rows, page, chunk>>
    /\ UNCHANGED <<ci, sheet, fetched>>

FetchAuth(r) ==
    /\ Request(r)
    /\ Classify(r) = "auth"
    /\ outcome' = "auth"
    /\ fails' = fails
    /\ attempt' = attempt + 1
    /\ slept' = 0
    /\ Return("auth", all_rows)
    /\ UNCHANGED <<next_date_from, all_rows, page, chunk>>
    /\ UNCHANGED <<ci, sheet, fetched>>

\* Variant: an unexpected status waits like a transient one.
FetchUnexpectedBacksOff(r) ==
    /\ Request(r)
    /\ Classify(r) = "unexpected"
    /\ Failed("unexpected", base_sleep * Min(attempt + 1, 4), max_http_retries, "cap_status")
    /\ UNCHANGED <<ci, sheet, fetched>>

FetchUnexpected(r) ==
    /\ Request(r)
    /\ Classify(r) = "unexpected"
    /\ Failed("unexpected", base_sleep, max_http_retries, "cap_status")
    /\ UNCHANGED <<ci, sheet, fetched>>

\* Variant: a malformed response is retried without waiting.
FetchMalformedNoSleep(r) ==
    /\ Request(r)
    /\ Classify(r) \in {"not_json", "decode_error", "not_array"}
    /\ Failed(Classify(r), 0, max_decode_retries, "cap_decode")
    /\ UNCHANGED <<ci, sheet, fetched>>

FetchMalformed(r) ==
    /\ Request(r)
    /\ Classify(r) \in {"not_json", "decode_error", "not_array"}
    /\ Failed(Classify(r), base_sleep, max_decode_retries, "cap_decode")
    /\ UNCHANGED <<ci, sheet, fetched>>

\* if not chunk: break
FetchEmptyPage(r) ==
    /\ Request(r)
    /\ Classify(r) = "valid"
    /\ JsonOf(r.body).items = <<>>
    /\ outcome' = "valid"
    /\ fails' = fails
    /\ attempt' = attempt + 1
    /\ chunk' = <<>>
    /\ slept' = 0
    /\ Return("empty", all_rows)
    /\ UNCHANGED <<next_date_from, all_rows, page>>
    /\ UNCHANGED <<ci, sheet, fetched>>

\* Variant: the accumulator is replaced by the page instead of extended.
FetchPageOverwrites(r) ==
    /\ Request(r)
    /\ Classify(r) = "valid"
    /\ JsonOf(r.body).items # <<>>
    /\ page <= MaxPages
    /\ outcome' = "valid"
    /\ chunk' = JsonOf(r.body).items
    /\ all_rows' = chunk'
    /\ IF HasKey(chunk'[Len(chunk')], "lastChangeDate")
       THEN /\ next_date_from' = Lookup(chunk'[Len(chunk')], "lastChangeDate")
            /\ page' = page + 1
            /\ slept' = base_sleep
            /\ attempt' = 0
            /\ fails' = [fails EXCEPT !.http = 0, !.decode = 0]
            /\ Continue
       ELSE /\ attempt' = attempt + 1
            /\ fails' = fails
            /\ slept' = 0
            /\ Return("no_cursor", all_rows')
            /\ UNCHANGED <<next_date_from, page>>
    /\ UNCHANGED <<ci, sheet, fetched>>

\* Variant: the pause after a page grows with the attempts the page took.
FetchPageSleepGrows(r) ==
    /\ Request(r)
    /\ Classify(r) = "valid"
    /\ JsonOf(r.body).items # <<>>
    /\ page <= MaxPages
    /\ outcome' = "valid"
    /\ chunk' = JsonOf(r.body).items
    /\ all_rows' = all_rows \o chunk'
    /\ IF HasKey(chunk'[Len(chunk')], "lastChangeDate")
       THEN /\ next_date_from' = Lookup(chunk'[Len(chunk')], "lastChangeDate")
            /\ page' = page + 1
            /\ slept' = base_sleep * Min(attempt + 1, 4)
            /\ attempt' = 0
            /\ fails' = [fails EXCEPT !.http = 0, !.decode = 0]
            /\ Continue
       ELSE /\ attempt' = attempt + 1
            /\ fails' = fails
            /\ slept' = 0
            /\ Return("no_cursor", all_rows')
            /\ UNCHANGED <<next_date_from, page>>
    /\ UNCHANGED <<ci, sheet, fetched>>

\* Variant: the cursor is taken from the first record of the page.
FetchPageFirstRecord(r) ==
    /\ Request(r)
    /\ Classify(r) = "valid"
    /\ JsonOf(r.body).items # <<>>
    /\ page <= MaxPages
    /\ outcome' = "valid"
    /\ chunk' = JsonOf(r.body).items
    /\ all_rows' = all_rows \o chunk'
    /\ IF HasKey(chunk'[1], "lastChangeDate")
       THEN /\ next_date_from' = Lookup(chunk'[1], "lastChangeDate")
            /\ page' = page + 1
            /\ slept' = base_sleep
            /\ attempt' = 0
            /\ fails' = [fails EXCEPT !.http = 0, !.decode = 0]
            /\ Continue
       ELSE /\ attempt' = attempt + 1
            /\ fails' = fails
            /\ slept' = 0
            /\ Return("no_cursor", all_rows')
            /\ UNCHANGED <<next_date_from, page>>
    /\ UNCHANGED <<ci, sheet, fetched>>

\* Variant: a page whose last record has no cursor field is not kept.
FetchPageDropsLast(r) ==
    /\ Request(r)
    /\ Classify(r) = "valid"
    /\ JsonOf(r.body).items # <<>>
    /\ page <= MaxPages
    /\ outcome' = "valid"
    /\ chunk' = JsonOf(r.body).items
    /\ all_rows' = all_rows \o chunk'
    /\ IF HasKey(chunk'[Len(chunk')], "lastChangeDate")
       THEN /\ next_date_from' = Lookup(chunk'[Len(chunk')], "lastChangeDate")
            /\ page' = page + 1
            /\ slept' = base_sleep
            /\ attempt' = 0
            /\ fails' = [fails EXCEPT !.http = 0, !.decode = 0]
            /\ Continue
       ELSE /\ attempt' = attempt + 1
            /\ fails' = fails
            /\ slept' = 0
            /\ Return("no_cursor", all_rows)
            /\ UNCHANGED <<next_date_from, page>>
    /\ UNCHANGED <<ci, sheet, fetched>>

\* all_rows.extend(chunk); next_date_from = chunk[-1]["lastChangeDate"]; page += 1; sleep
FetchPage(r) ==
    /\ Request(r)
    /\ Classify(r) = "valid"
    /\ JsonOf(r.body).items # <<>>
    /\ page <= MaxPages
    /\ outcome' = "valid"
    /\ chunk' = JsonOf(r.body).items
    /\ all_rows' = all_rows \o chunk'
    /\ IF HasKey(chunk'[Len(chunk')], "lastChangeDate")
       THEN /\ next_date_from' = Lookup(chunk'[Len(chunk')], "lastChangeDate")
            /\ page' = page + 1
            /\ slept' = base_sleep
            /\ attempt' = 0
            /\ fails' = [fails EXCEPT !.http = 0, !.decode = 0]
            /\ Continue
       ELSE /\ attempt' = attempt + 1
            /\ fails' = fails
            /\ slept' = 0
            /\ Return("no_cursor", all_rows')
            /\ UNCHANGED <<next_date_from, page>>
    /\ UNCHANGED <<ci, sheet, fetched>>

(***************************************************************************)
(* write_orders_to_sheet: one invocation of a worksheet operation.         *)
(***************************************************************************)
\* The function returns (normally or through its except clause); main() sleeps
\* and moves on to the next entry.
WriteReturn ==
    /\ wpc' = "idle"
    /\ rc' = 1
    /\ mainpc' = "next"
    /\ ci' = ci + 1

\* Variant: an empty result is written as a one-cell placeholder row.
PreparePlaceholder ==
    IF orders # <<>> /\ ~RowsOk(orders)
    THEN WriteReturn /\ rows' = rows
    ELSE /\ rows' = IF orders = <<>> THEN << <<"no data">> >> ELSE Rows(orders)
         /\ wpc' = "clear"
         /\ rc' = 1
         /\ UNCHANGED <<mainpc, ci>>

\* After ws is obtained: the empty check and the preparation of the rows.
Prepare ==
    IF orders = <<>> \/ ~RowsOk(orders)
    THEN WriteReturn /\ rows' = rows
    ELSE /\ rows' = Rows(orders)
         /\ wpc' = "clear"
         /\ rc' = 1
         /\ UNCHANGED <<mainpc, ci>>

\* retry_call(spreadsheet.worksheet, title)
WriteGet(o) ==
    /\ mainpc = "write"
    /\ wpc = "get"
    /\ o \in Failures \cup (IF sheet[cabinet_name].exists THEN {Ok} ELSE {WorksheetNotFound})
    /\ rlast' = o
    /\ CASE retry_call(o, rc) = "return" -> Prepare
         [] retry_call(o, rc) = "retry" ->
              rc' = rc + 1 /\ UNCHANGED <<wpc, mainpc, ci, rows>>
         [] OTHER ->
              IF o.kind = "notfound"
              THEN wpc' = "add" /\ rc' = 1 /\ UNCHANGED <<mainpc, ci, rows>>
              ELSE WriteReturn /\ rows' = rows
    /\ UNCHANGED <<sheet, orders, cabinet_name, nclear, nupdate, fetched, written>>
    /\ FetchFrameGone

\* retry_call(spreadsheet.add_worksheet, title=title, rows="1000", cols="26")
WriteAdd(o) ==
    /\ mainpc = "write"
    /\ wpc = "add"
    /\ o \in Failures \cup {Ok}
    /\ rlast' = o
    /\ CASE retry_call(o, rc) = "return" ->
              sheet' = [sheet EXCEPT ![cabinet_name] = Table(<<>>)] /\ Prepare
         [] retry_call(o, rc) = "retry" ->
              rc' = rc + 1 /\ UNCHANGED <<wpc, mainpc, ci, rows, sheet>>
         [] OTHER -> WriteReturn /\ UNCHANGED <<rows, sheet>>
    /\ UNCHANGED <<orders, cabinet_name, nclear, nupdate, fetched, written>>
    /\ FetchFrameGone

\* Variant: an error raised by the clear is not caught and ends main().
WriteClearPropagates(o) ==
    /\ mainpc = "write"
    /\ wpc = "clear"
    /\ o \in Failures \cup {Ok}
    /\ rlast' = o
    /\ nclear' = nclear + 1
    /\ CASE retry_call(o, rc) = "return" ->
              /\ sheet' = [sheet EXCEPT ![cabinet_name] = Table(<<>>)]
              /\ wpc' = "update"
              /\ rc' = 1
              /\ UNCHANGED <<mainpc, ci>>
         [] retry_call(o, rc) = "retry" ->
              rc' = rc + 1 /\ UNCHANGED <<wpc, mainpc, ci, sheet>>
         [] OTHER ->
              wpc' = "idle" /\ rc' = 1 /\ mainpc' = "aborted" /\ UNCHANGED <<ci, sheet>>
    /\ UNCHANGED <<orders, cabinet_name, rows, nupdate, fetched, written>>
    /\ FetchFrameGone

\* worksheet_clear_safe(ws)
WriteClear(o) ==
    /\ mainpc = "write"
    /\ wpc = "clear"
    /\ o \in Failures \cup {Ok}
    /\ rlast' = o
    /\ nclear' = nclear + 1
    /\ CASE retry_call(o, rc) = "return" ->
              /\ sheet' = [sheet EXCEPT ![cabinet_name] = Table(<<>>)]
              /\ wpc' = "update"
              /\ rc' = 1
              /\ UNCHANGED <<mainpc, ci>>
         [] retry_call(o, rc) = "retry" ->
              rc' = rc + 1 /\ UNCHANGED <<wpc, mainpc, ci, sheet>>
         [] OTHER -> WriteReturn /\ UNCHANGED sheet
    /\ UNCHANGED <<orders, cabinet_name, rows, nupdate, fetched, written>>
    /\ FetchFrameGone

\* worksheet_update_safe(ws, rows)
WriteUpdate(o) ==
    /\ mainpc = "write"
    /\ wpc = "update"
    /\ o \in Failures \cup {Ok}
    /\ rlast' = o
    /\ nupdate' = nupdate + 1
    /\ CASE retry_call(o, rc) = "return" ->
              sheet' = [sheet EXCEPT ![cabinet_name] = Table(rows)] /\ WriteReturn
         [] retry_call(o, rc) = "retry" ->
              rc' = rc + 1 /\ UNCHANGED <<wpc, mainpc, ci, sheet>>
         [] OTHER -> WriteReturn /\ UNCHANGED sheet
    /\ UNCHANGED <<orders, cabinet_name, rows, nclear, fetched, written>>
    /\ FetchFrameGone

(***************************************************************************)
(* Spec: the whole run of main() over the credential list.                 *)
(***************************************************************************)
Next ==
    \/ \E o \in FewFailures \cup {Ok} : OpenTarget(o)
    \/ FetchBegin
    \/ Finish
    \/ FetchNetworkError
    \/ \E r \in FewResponses : FetchTransient(r)
    \/ \E r \in FewResponses : FetchAuth(r)
    \/ \E r \in FewResponses : FetchUnexpected(r)
    \/ \E r \in FewResponses : FetchMalformed(r)
    \/ \E r \in FewResponses : FetchEmptyPage(r)
    \/ \E r \in FewResponses : FetchPage(r)
    \/ \E o \in FewFailures \cup {Ok, WorksheetNotFound} : WriteGet(o)
    \/ \E o \in FewFailures \cup {Ok} : WriteAdd(o)
    \/ \E o \in FewFailures \cup {Ok} : WriteClear(o)
    \/ \E o \in FewFailures \cup {Ok} : WriteUpdate(o)

Spec == Init /\ [][Next]_vars

(***************************************************************************)
(* SpecFetch: one call of fetch_orders (for the first entry), from its     *)
(* entry to its return, against every response of Responses.               *)
(***************************************************************************)
InitFetch ==
    /\ mainpc = "fetch"
    /\ ci = 1
    /\ sheet = InitialSheet
    /\ orders = <<>>
    /\ cabinet_name = <<>>
    /\ next_date_from = date_from
    /\ all_rows = <<>>
    /\ page = 1
    /\ attempt = 0
    /\ chunk = <<>>
    /\ resp = NoResponse
    /\ outcome = "none"
    /\ slept = 0
    /\ reqCursor = ""
    /\ nreq = 0
    /\ served = <<>>
    /\ fails = NoFails
    /\ stop = "none"
    /\ wpc = "idle"
    /\ rc = 1
    /\ rlast = NoOutcome
    /\ rows = <<>>
    /\ nclear = 0
    /\ nupdate = 0
    /\ fetched = [i \in DOMAIN data |-> IF i = 1 THEN 1 ELSE 0]
    /\ written = [i \in DOMAIN data |-> 0]

NextFetch ==
    \/ FetchNetworkError
    \/ \E r \in Responses : FetchTransient(r)
    \/ \E r \in Responses : FetchAuth(r)
    \/ \E r \in Responses : FetchUnexpected(r)
    \/ \E r \in Responses : FetchMalformed(r)
    \/ \E r \in Responses : FetchEmptyPage(r)
    \/ \E r \in Responses : FetchPage(r)

SpecFetch == InitFetch /\ [][NextFetch]_vars

(***************************************************************************)
(* SpecSink: the Sheets side alone, against every failure of Failures:     *)
(* the opening of the target, or one call of write_orders_to_sheet for any *)
(* entry with any list of SinkInputs, from its entry to its return.        *)
(***************************************************************************)
SinkInputs == { <<>>, <<rA, rB, rC>>, <<rB, rA>>, <<rA, Num>>, <<Num>> }

InitSink ==
    \/ Init
    \/ /\ mainpc = "write"
       /\ ci \in DOMAIN data
       /\ sheet = InitialSheet
       /\ orders \in SinkInputs
       /\ cabinet_name = data[ci].cabinet
       /\ next_date_from = date_from
       /\ all_rows = <<>>
       /\ page = 1
       /\ attempt = 0
       /\ chunk = <<>>
       /\ resp = NoResponse
       /\ outcome = "none"
       /\ slept = 0
       /\ reqCursor = ""
       /\ nreq = 0
       /\ served = <<>>
       /\ fails = NoFails
       /\ stop = "none"
       /\ wpc = "get"
       /\ rc = 1
       /\ rlast = NoOutcome
       /\ rows = <<>>
       /\ nclear = 0
       /\ nupdate = 0
       /\ fetched = [i \in DOMAIN data |-> IF i <= ci THEN 1 ELSE 0]
       /\ written = [i \in DOMAIN data |-> IF i <= ci THEN 1 ELSE 0]

NextSink ==
    \/ \E o \in Failures \cup {Ok} : OpenTarget(o)
    \/ \E o \in Failures \cup {Ok, WorksheetNotFound} : WriteGet(o)
    \/ \E o \in Failures \cup {Ok} : WriteAdd(o)
    \/ \E o \in Failures \cup {Ok} : WriteClear(o)
    \/ \E o \in Failures \cup {Ok} : WriteUpdate(o)

SpecSink == InitSink /\ [][NextSink]_vars

(***************************************************************************)
(* SpecLive: the whole run, which never stops while a step is possible     *)
(* (main() is sequential code; every sleep and every request returns).     *)
(***************************************************************************)
SpecLive == Init /\ [][Next]_vars /\ WF_vars(Next)

(***************************************************************************)
(* Properties of fetch_orders.                                             *)
(***************************************************************************)
FailureTags == {"network", "transient", "unexpected", "not_json", "decode_error", "not_array"}
MalformedTags == {"not_json", "decode_error", "not_array"}

\* fetch_orders has returned and main() has not yet started the sink's first operation.
Returned == mainpc = "write" /\ stop # "none"

RECURSIVE Concat(_)
Concat(ps) == IF ps = <<>> THEN <<>> ELSE Head(ps) \o Concat(Tail(ps))

\* C1: a retry never changes the cursor: a request that follows a failed attempt of
\* the same page carries the dateFrom of the request before it, and whenever the
\* cursor changes during a fetch the step received a validated non-empty page.
C1_RetryKeepsCursor ==
    [][ (mainpc = "fetch" /\ nreq' = nreq + 1)
        => /\ reqCursor' = next_date_from
           /\ (attempt > 0 => reqCursor' = reqCursor)
           /\ (outcome' \in FailureTags \cup {"auth"} => next_date_from' = next_date_from)
           /\ (next_date_from' # next_date_from
                 => /\ ~resp'.exc /\ resp'.status = 200
                    /\ IsPage(resp'.ctype, resp'.body)
                    /\ chunk' = PageOf(resp'.body)) ]_vars

\* C1 witness: a second failed attempt on page 2, both requests carrying the advanced cursor.
C1_Witness ==
    /\ mainpc = "fetch" /\ page = 2 /\ attempt = 2 /\ outcome = "decode_error"
    /\ next_date_from = "d2" /\ reqCursor = "d2"

ZeroRecords == outcome = "valid" /\ chunk = <<>>
FatalAuth == outcome = "auth"
CapReached ==
    \/ outcome \in {"network", "transient", "unexpected"} /\ attempt >= max_http_retries
    \/ outcome \in MalformedTags /\ attempt >= max_decode_retries
MissingCursor ==
    outcome = "valid" /\ chunk # <<>> /\ ~HasKey(chunk[Len(chunk)], "lastChangeDate")

Count(S) == Cardinality({ b \in S : b[2] })

\* C2 as stated: fetch_orders has returned iff exactly one of: an empty page, a 401,
\* a retry cap reached.
C2_ThreeCauses ==
    LET n == Count({ <<1, ZeroRecords>>, <<2, FatalAuth>>, <<3, CapReached>> })
    IN IF Returned THEN n = 1 ELSE n = 0

\* C2 amended: fetch_orders has returned iff exactly one of: an empty page, a 401,
\* the page's attempt count reaching the cap of the failure just seen, a non-empty
\* valid page whose last record has no lastChangeDate.
C2_FourCauses ==
    LET n == Count({ <<1, ZeroRecords>>, <<2, FatalAuth>>, <<3, CapReached>>,
                     <<4, MissingCursor>> })
    IN IF Returned THEN n = 1 ELSE n = 0

\* C2 witness: a return caused by the missing cursor field, after an accepted page.
C2_Witness == Returned /\ MissingCursor /\ page = 2 /\ ~ZeroRecords /\ ~CapReached

\* C3: no page gets more than 3 requests, the third failed attempt of a page returns
\* the records accumulated so far, and a fetch issues at most 3 requests per page
\* started, hence at most (MaxPages + 1) * 3 in all.
C3_BoundedRequests ==
    /\ attempt <= 3
    /\ nreq <= 3 * page
    /\ nreq <= (MaxPages + 1) * 3
    /\ page <= MaxPages + 1
    /\ (outcome \in FailureTags /\ attempt = 3 => Returned /\ orders = all_rows)
    /\ (mainpc = "fetch" /\ nreq > 0 => attempt < 3)

\* C3 witness: three 503 answers to the first page end the fetch with an empty list.
C3_Witness ==
    /\ Returned /\ nreq = 3 /\ page = 1 /\ resp.status = 503 /\ stop = "cap_http"
    /\ orders = <<>>

\* C4: when the fetch ends with an empty page, the returned list is the concatenation,
\* in arrival order, of the non-empty pages the upstream sent.
C4_RoundTrip ==
    Returned /\ ZeroRecords => orders = Concat(served)

\* C4 witness: two non-empty pages, a retried failure, then the empty page.
C4_Witness ==
    /\ Returned /\ ZeroRecords /\ Len(served) = 2 /\ served[1] # served[2]
    /\ nreq > 3 /\ orders = served[1] \o served[2]

\* C5: every return hands back exactly the pages accepted so far, and during a fetch
\* the accumulator only grows at its end.
C5_NothingLost ==
    /\ (Returned => orders = Concat(served) /\ orders = all_rows)
    /\ (mainpc = "fetch" => all_rows = Concat(served))

\* C5 witness: the retry cap is reached on the second page; the first page is returned.
C5_Witness ==
    /\ Returned /\ CapReached /\ page = 2 /\ Len(served) = 1 /\ orders = served[1]

(***************************************************************************)
(* Properties of write_orders_to_sheet and main.                           *)
(***************************************************************************)
\* C6: a sink call with zero records never invokes clear or update and leaves every
\* worksheet as it was, except that a missing worksheet may be created empty.
C6_EmptyLeavesTable ==
    [][ (mainpc = "write" /\ orders = <<>>)
        => /\ nclear' = 0
           /\ nupdate' = 0
           /\ wpc' \in {"get", "add", "idle"}
           /\ \A t \in Titles :
                 \/ sheet'[t] = sheet[t]
                 \/ t = cabinet_name /\ ~sheet[t].exists /\ sheet'[t] = Table(<<>>) ]_vars

\* C6 witness: the sink call for the first cabinet returned after finding the
\* worksheet, with zero records; the old rows are still there.
C6_Witness ==
    /\ mainpc = "next" /\ cabinet_name = data[1].cabinet /\ orders = <<>>
    /\ rlast = Ok /\ sheet[cabinet_name] = Table(OldRows)

\* C7: entries are processed in list order, each with exactly one fetch followed by
\* exactly one sink call, which receives the entry's cabinet name and the list the
\* fetch returned, also when that list is empty.
C7_OneFetchOneSink ==
    /\ \A i \in DOMAIN data :
          /\ fetched[i] = IF i < ci \/ (i = ci /\ mainpc \in {"fetch", "write"}) THEN 1 ELSE 0
          /\ written[i] = IF i < ci \/ (i = ci /\ mainpc = "write") THEN 1 ELSE 0
    /\ (mainpc = "write" => cabinet_name = data[ci].cabinet)
    /\ (Returned => orders = all_rows)
    /\ (mainpc = "done" => \A i \in DOMAIN data : fetched[i] = 1 /\ written[i] = 1)

\* C7 witness: the second entry's first request got a 401 and the sink is called
\* with the empty list.
C7_Witness ==
    /\ Returned /\ ci = 2 /\ stop = "auth" /\ nreq = 1 /\ orders = <<>>
    /\ written[2] = 1 /\ cabinet_name = data[2].cabinet

\* C8: main() can end early only while opening the target; once the loop has been
\* entered, whatever fails in a fetch or in a sink call, the run goes on to fetch
\* and to call the sink for every entry.
C8_CabinetsIsolated ==
    /\ [](mainpc = "aborted" => \A i \in DOMAIN data : fetched[i] = 0)
    /\ (mainpc = "next"
           ~> (mainpc = "done" /\ \A i \in DOMAIN data : fetched[i] = 1 /\ written[i] = 1))

\* C8 witness: the first cabinet's update failed after its clear (the worksheet is
\* left empty) and the run still finished with the second cabinet written.
C8_Witness ==
    /\ mainpc = "done" /\ sheet[data[1].cabinet] = Table(<<>>)
    /\ written[2] = 1 /\ sheet[data[2].cabinet].exists

(***************************************************************************)
(* Properties of the classification.                                       *)
(***************************************************************************)
JsonCType(ct) == \E i \in DOMAIN ct : ct[i] \in {"application/json", "Application/JSON"}
Blank(body) == NonBlank(body) = {}
Parses(body) ==
    Cardinality(NonBlank(body)) = 1 /\ \A i \in NonBlank(body) : body[i].k = "json"
Parsed(body) == body[CHOOSE i \in NonBlank(body) : TRUE].v

\* C9: the branch taken for a response is the first rule that applies: transient
\* status, 401, other non-200 status, non-JSON content type or blank body,
\* unparsable body, parsed value not an array, else a valid page.
C9_Classification ==
    nreq > 0 =>
      outcome =
        IF resp.exc THEN "network"
        ELSE IF resp.status \in {429, 500, 502, 503, 504} THEN "transient"
        ELSE IF resp.status = 401 THEN "auth"
        ELSE IF resp.status # 200 THEN "unexpected"
        ELSE IF ~JsonCType(resp.ctype) \/ Blank(resp.body) THEN "not_json"
        ELSE IF ~Parses(resp.body) THEN "decode_error"
        ELSE IF Parsed(resp.body).t # "arr" THEN "not_array"
        ELSE "valid"

\* C9 witness: a 401 whose body is a well-formed JSON page is still fatal-auth.
C9_Witness ==
    /\ resp.status = 401 /\ JsonCType(resp.ctype) /\ IsPage(resp.ctype, resp.body)
    /\ outcome = "auth"

\* C10: a 401 on any page at any attempt makes fetch_orders return at once, with the
\* accumulated records and without sleeping; on the first request the result is empty.
C10_AuthStopsAtOnce ==
    /\ (nreq > 0 /\ ~resp.exc /\ resp.status = 401 => FatalAuth)
    /\ (FatalAuth => /\ Returned
                     /\ stop = "auth"
                     /\ slept = 0
                     /\ orders = Concat(served)
                     /\ (nreq = 1 => orders = <<>>))

\* C10 witness: a 401 on the third attempt of the second page.
C10_Witness ==
    /\ FatalAuth /\ Returned /\ page = 2 /\ attempt = 3 /\ slept = 0 /\ orders # <<>>

(***************************************************************************)
(* Properties of the retry policies and the waits.                         *)
(***************************************************************************)
HttpTags == {"network", "transient", "unexpected"}

\* C11: each retry policy counts its own failures of the page: a page is given up
\* only when the HTTP/network failures alone reach max_http_retries or the
\* malformed ones alone reach max_decode_retries.
C11_SeparateCeilings ==
    Returned /\ CapReached
      => \/ outcome \in HttpTags /\ fails.http >= max_http_retries
         \/ outcome \in MalformedTags /\ fails.decode >= max_decode_retries

\* C12: after a transient status the wait is base_sleep * min(attempt, 4), attempt
\* being the number of the request just answered: 60, 120, 180 for attempts 1, 2, 3,
\* and never more than 4 * base_sleep.
C12_TransientWait ==
    outcome = "transient"
      => /\ slept = base_sleep * Min(attempt, 4)
         /\ slept = CASE attempt = 1 -> 60 [] attempt = 2 -> 120 [] attempt = 3 -> 180
                      [] OTHER -> 0
         /\ slept <= 4 * base_sleep

\* C12 witness: the third transient answer for the second page waits 180.
C12_Witness ==
    outcome = "transient" /\ resp.status = 429 /\ page = 2 /\ attempt = 3 /\ slept = 180

\* What a network failure or an unexpected status shares with a transient status:
\* the cursor is kept, the page is retried below the cap of 3 and the accumulated
\* records are returned at the cap.
LikeTransientButWait ==
    /\ reqCursor = next_date_from
    /\ IF attempt >= max_http_retries
       THEN Returned /\ orders = Concat(served)
       ELSE mainpc = "fetch" /\ stop = "none"

\* C13 as stated: a network exception or an unexpected status is handled exactly
\* like a transient status, the wait base_sleep * min(attempt, 4) included.
C13_SameAsTransient ==
    outcome \in {"network", "unexpected"}
      => slept = base_sleep * Min(attempt, 4) /\ LikeTransientButWait

\* C13 amended: a network exception or an unexpected status is handled like a
\* transient status except for the wait, which is base_sleep whatever the attempt.
C13_FlatWait ==
    outcome \in {"network", "unexpected"}
      => slept = base_sleep /\ LikeTransientButWait

\* C13 witness: a third unexpected status on the second page waits 60, then returns.
C13_Witness ==
    /\ outcome = "unexpected" /\ page = 2 /\ attempt = 3 /\ slept = 60
    /\ Returned /\ orders # <<>>

(***************************************************************************)
(* Properties of the Sheets operations.                                    *)
(***************************************************************************)
\* A write_orders_to_sheet call with a non-empty list has returned.
SinkReturned == mainpc = "next" /\ cabinet_name # <<>> /\ orders # <<>>

\* C14: when a sink call with a non-empty list returns, the worksheet holds either
\* what it held before the call (nothing, for a worksheet the call created) or
\* exactly the header row and the rows of the records; no update precedes a clear.
C14_AtomicReplace ==
    /\ (nupdate > 0 => nclear > 0)
    /\ (SinkReturned
          => \/ sheet[cabinet_name] = InitialSheet[cabinet_name]
             \/ ~InitialSheet[cabinet_name].exists /\ sheet[cabinet_name] = Table(<<>>)
             \/ RowsOk(orders) /\ sheet[cabinet_name] = Table(Rows(orders)))

\* One invocation made by retry_call and what follows it.
RetryCallStep ==
    mainpc \in {"open", "write"}
        => LET o == rlast'
               transient == \/ o.kind = "api" /\ o.code \in {429, 500, 502, 503, 504}
                            \/ o.kind = "net"
               retried == mainpc' = mainpc /\ wpc' = wpc /\ rc' = rc + 1
               propagated == /\ mainpc' = (IF mainpc = "open" THEN "aborted" ELSE "next")
                             /\ sheet' = sheet
           IN /\ rc \in 1..5
              /\ nclear' <= 5
              /\ nupdate' <= 5
              /\ o.kind \in {"ok", "api", "net", "notfound"}
              /\ (o.kind = "ok" => ~retried /\ mainpc' # "aborted" /\ rc' = 1)
              /\ (o.kind = "ok" /\ mainpc = "open" => mainpc' = "next")
              /\ (o.kind = "ok" /\ wpc = "get" => sheet' = sheet /\ wpc' \in {"clear", "idle"})
              /\ (o.kind = "ok" /\ wpc = "add"
                    => sheet'[cabinet_name] = Table(<<>>) /\ wpc' \in {"clear", "idle"})
              /\ (o.kind = "ok" /\ wpc = "clear"
                    => sheet'[cabinet_name] = Table(<<>>) /\ wpc' = "update")
              /\ (o.kind = "ok" /\ wpc = "update"
                    => sheet'[cabinet_name] = Table(rows) /\ mainpc' = "next")
              /\ (transient /\ rc < 5 => retried /\ sheet' = sheet)
              /\ (transient /\ rc = 5 => propagated)
              /\ (o.kind = "api" /\ ~transient => propagated)
              /\ (o.kind = "notfound" => wpc' = "add" /\ rc' = 1 /\ mainpc' = mainpc)

\* C15: an operation is invoked at most 5 times by retry_call; a retryable API
\* error or a network error before the 5th invocation is followed by another
\* invocation of the same operation; a success ends the call with the operation's
\* effect; a non-retryable API error, and any error of the 5th invocation, leaves
\* retry_call at once (main() ends if it was the opening of the target, the sink
\* call returns otherwise).
C15_RetryCall == [][RetryCallStep]_vars

\* C15 witness: the clear failed five times in a row, the last time with a 429, and
\* the sink call returned without an update.
C15_Witness ==
    /\ mainpc = "next" /\ nclear = 5 /\ nupdate = 0 /\ rlast = ApiError(429)
    /\ sheet[cabinet_name] = Table(OldRows)

\* The rows the records os are to be written as: the header is the first record's
\* field names in their order; then one row per record, of the header's length,
\* holding the record's value of each header field, or "" where it has none.
RowsAsSpecified(os, rs) ==
    /\ Len(rs) = Len(os) + 1
    /\ Len(rs[1]) = Len(os[1].kv)
    /\ \A j \in DOMAIN os[1].kv : rs[1][j] = os[1].kv[j][1]
    /\ \A i \in DOMAIN os :
          /\ Len(rs[i + 1]) = Len(rs[1])
          /\ \A j \in DOMAIN rs[1] :
                \/ \E k \in DOMAIN os[i].kv : os[i].kv[k] = <<rs[1][j], rs[i + 1][j]>>
                \/ /\ \A k \in DOMAIN os[i].kv : os[i].kv[k][1] # rs[1][j]
                   /\ rs[i + 1][j] = ""

\* C19: the rows prepared for a non-empty list, and the rows the worksheet holds
\* after a successful update, are the header of the first record's field names
\* followed by one row per record in input order, missing fields as "".
C19_RowsWritten ==
    /\ (wpc \in {"clear", "update"} => RowsAsSpecified(orders, rows))
    /\ (mainpc = "next" /\ nupdate > 0 /\ rlast = Ok
          => sheet[cabinet_name] = Table(rows) /\ RowsAsSpecified(orders, rows))

\* C19 witness: two records with different field orders, the second lacking the
\* field x of the first, have been written.
C19_Witness ==
    /\ mainpc = "next" /\ rlast = Ok /\ nupdate > 0 /\ orders = <<rB, rA>>
    /\ sheet[cabinet_name].rows = << <<"lastChangeDate", "id", "x">>,
                                     <<"d2", "b", "1">>, <<"d1", "a", "">> >>

(***************************************************************************)
(* Properties of the page advance and of the pacing.                       *)
(***************************************************************************)
\* The lastChangeDate of the last record of a page.
LastDates(p) ==
    { d \in {"d0", "d1", "d2"} :
        \E k \in DOMAIN p[Len(p)].kv : p[Len(p)].kv[k] = <<"lastChangeDate", d>> }

\* C16: whenever the fetch goes on after a non-empty valid page, it has slept exactly
\* base_sleep (60) since that page's request, whatever the page and however many
\* attempts the page took, and the next page starts with a fresh attempt count.
C16_PagePause ==
    outcome = "valid" /\ mainpc = "fetch"
      => slept = 60 /\ slept = base_sleep /\ attempt = 0 /\ chunk # <<>>

\* C16 witness: the second page was accepted on its third attempt; the pause is 60.
C16_Witness ==
    /\ outcome = "valid" /\ mainpc = "fetch" /\ page = 3 /\ nreq = 6
    /\ fails.total = 4 /\ slept = 60

\* C17: from the second page on, the cursor, and the dateFrom of every request, is
\* the lastChangeDate of the last record of the page before; a run without failed
\* attempts that ends with the empty page makes one request per non-empty page
\* plus one.
C17_CursorFromLastRecord ==
    /\ (page > 1 /\ nreq > 0
          => /\ LastDates(served[page - 1]) = {next_date_from}
             /\ (attempt > 0 => reqCursor = next_date_from))
    /\ (page = 1 /\ nreq > 0 => reqCursor = date_from)
    /\ (Returned /\ ZeroRecords /\ fails.total = 0 => nreq = Len(served) + 1)

\* C17 witness: two pages then the empty page in three requests; the last request
\* carried d1, the date of the last record of the second page, whose first record
\* has the later date d2.
C17_Witness ==
    /\ Returned /\ ZeroRecords /\ fails.total = 0 /\ nreq = 3
    /\ served = << <<rA, rB>>, <<rB, rA>> >> /\ reqCursor = "d1"

\* C18: a non-empty valid page whose last record has no lastChangeDate makes the
\* fetch return normally at once, without a sleep, with the accumulated records
\* ending in the records of that page.
C18_MissingCursorStops ==
    MissingCursor
      => /\ Returned
         /\ stop = "no_cursor"
         /\ slept = 0
         /\ served[Len(served)] = chunk
         /\ orders = Concat(served)
         /\ Len(orders) >= Len(chunk)
         /\ SubSeq(orders, Len(orders) - Len(chunk) + 1, Len(orders)) = chunk

\* C18 witness: the second page ends in a record without the field; both pages are
\* returned.
C18_Witness ==
    /\ Returned /\ MissingCursor /\ chunk = <<rA, rC>> /\ Len(served) = 2
    /\ orders = served[1] \o <<rA, rC>>

\* C20: a request that is not the first of its fetch_orders call is preceded by a
\* sleep of at least base_sleep (60) since the request before it.
C20_MinuteBetweenRequests ==
    [][ (mainpc = "fetch" /\ nreq > 0 /\ nreq' = nreq + 1)
        => slept >= 60 /\ slept >= base_sleep ]_vars

\* C20 witness: a request went out after a malformed answer, itself after a network
\* failure; 60 was slept in between.
C20_Witness ==
    /\ mainpc = "fetch" /\ nreq = 2 /\ fails.http = 1 /\ fails.decode = 1
    /\ outcome = "not_array" /\ slept = 60

====
